---- MODULE Spec2Model ----
(***************************************************************************)
(* Model of port_scanner.py: scan_port (one TCP connect probe), scan_ports *)
(* (thread-pool fan-out, as_completed collection, sort by port),           *)
(* display_results, validate_ip and main.                                  *)
(*                                                                         *)
(* One behaviour is one invocation: either of main() with parsed           *)
(* arguments, or of scan_ports() called directly as a library function.    *)
(***************************************************************************)
EXTENDS Integers, Sequences, FiniteSets, TLC

\* ------------------------------------------------------------------ bounds
\* Largest number of ports in a range handed to the model.
MaxPorts == 3
\* Largest --threads value handed to the model.
MaxThreads == 2

\* ------------------------------------------------------- program constants
MinPort == 1
MaxPort == 65535
\* scan_port(ip, port, timeout=1)
DefaultTimeout == 1
\* Exit status of the interpreter when main() returns and nothing calls
\* sys.exit.
ExitNormal == 0

\* ------------------------------------------------------------------ inputs
\* Address literals: dotted or colon-separated groups of numbers.
Loopback4 == [sep |-> ".", parts |-> <<127, 0, 0, 1>>]
BadQuad   == [sep |-> ".", parts |-> <<999, 999, 999, 999>>]
Loopback6 == [sep |-> ":", parts |-> <<0, 0, 0, 0, 0, 0, 0, 1>>]
IpInputs  == {Loopback4, BadQuad, Loopback6}

\* First ports of the ranges tried: below the legal ports, the lowest legal
\* port, and close enough to the highest legal port to step over it.
StartInputs == {MinPort - 1, MinPort, MaxPort - 1}
ThreadInputs == 0..MaxThreads

VARIABLES
    entry,        \* "main" or "scan_ports": which function was invoked
    ip, start_port, end_port, max_threads,   \* the arguments
    pc,           \* position of the calling thread
    ports,        \* range(start_port, end_port + 1) as a sequence
    next_i,       \* index into ports of the next executor.submit
    queue,        \* executor work queue: ports whose work item is waiting
    busy,         \* busy[w]: the port worker thread w is probing, as a set
                  \* of at most one port ({} when the worker is idle)
    fut,          \* fut[p]: "PENDING", "RUNNING" or "FINISHED"
    cause,        \* cause[p]: what the network / OS did to the probe of p
    outcome,      \* outcome[p]: what scan_port(ip, p) produced
    sock,         \* sock[p]: "none", "open" or "closed"
    started,      \* started[p]: number of times scan_port was entered for p
    call,         \* call[p]: the arguments submit was given for scan_port
    tmo,          \* tmo[p]: the timeout the probe of p set on its socket, as a
                  \* sequence (<<>> before the probe has started)
    arrival,      \* ports of the futures as_completed has yielded, in order
    results,      \* the local list results of scan_ports
    sp,           \* scan_ports: "idle", "running", "returned" or "raised"
    ret,          \* return value of scan_ports
    exc,          \* exception leaving scan_ports, "none" otherwise
    out,          \* lines printed by main, in order
    exit_code     \* exit status of the process, as a sequence (<<>> while
                  \* main has not returned)

vars == <<entry, ip, start_port, end_port, max_threads, pc, ports, next_i,
          queue, busy, fut, cause, outcome, sock, started, call, tmo, arrival,
          results, sp, ret, exc, out, exit_code>>

args == <<entry, ip, start_port, end_port, max_threads>>
pool == <<queue, busy, fut, cause, outcome, sock, started, call, tmo>>
coll == <<arrival, results>>

\* ------------------------------------------------------------ pure helpers
\* Variant of Range that also leaves out hi - 1 (a call without the + 1).
RangeShort(lo, hi) == [i \in 1..(IF hi - 1 > lo THEN hi - 1 - lo ELSE 0) |-> lo + i - 1]

\* Variant of Range that yields lo when the range is empty.
RangeAtLeastOne(lo, hi) == [i \in 1..(IF hi > lo THEN hi - lo ELSE 1) |-> lo + i - 1]

\* range(lo, hi): lo, lo+1, ..., hi-1 as a sequence.
Range(lo, hi) == [i \in 1..(IF hi > lo THEN hi - lo ELSE 0) |-> lo + i - 1]

ToSet(s) == {s[i] : i \in 1..Len(s)}

\* ipaddress.ip_address accepts four groups 0..255 or eight groups 0..65535.
IsIPv4(a) == a.sep = "." /\ Len(a.parts) = 4
             /\ \A i \in 1..Len(a.parts) : a.parts[i] \in 0..255
IsIPv6(a) == a.sep = ":" /\ Len(a.parts) = 8
             /\ \A i \in 1..Len(a.parts) : a.parts[i] \in 0..65535

validate_ip(a) == IsIPv4(a) \/ IsIPv6(a)

\* Variant of ValidRange without the start_port > end_port test.
ValidRangeUnordered(s, e) == ~(s < MinPort \/ e > MaxPort)

\* The range test of main, negated: TRUE when the range is accepted.
ValidRange(s, e) == ~(s < MinPort \/ e > MaxPort \/ s > e)

Line(kind, port) == [kind |-> kind, port |-> port]

\* ---------------------------------------------------------------- scan_port
NoExc == "none"

\* What the operating system and the network can do to one probe:
\*   emfile      socket.socket() fails (no descriptor left)
\*   gaierror    the host string does not resolve to an AF_INET address
\*   overflow    the port is outside what connect_ex accepts
\*   connected   the TCP handshake completed within the timeout
\*   refused     the peer answered with a reset
\*   timeout     nothing came back before the timeout expired
\*   unreachable no route to the network of the host
Causes(a, p) ==
    {"emfile"} \cup
    (IF ~IsIPv4(a) THEN {"gaierror"}
     ELSE IF p < 0 \/ p > MaxPort THEN {"overflow"}
     ELSE {"connected", "refused", "timeout", "unreachable"})

\* Variant of socket_error for a clause that names only socket.gaierror.
socket_error_narrow == {"gaierror"}

\* Exception classes that "except socket.error" catches (OSError and its
\* subclasses).
socket_error == {"OSError", "gaierror"}

\* Variant of connect_ex that behaves like sock.connect: a failed connect
\* raises instead of returning an error indicator.
connect_raising(c) ==
    CASE c = "connected"   -> [raised |-> NoExc, code |-> 0]
      [] c = "gaierror"    -> [raised |-> "gaierror", code |-> -1]
      [] c = "overflow"    -> [raised |-> "OverflowError", code |-> -1]
      [] OTHER             -> [raised |-> "OSError", code |-> -1]

\* sock.connect_ex: an error indicator for what the C connect() reports, an
\* exception for everything else.
connect_ex(c) ==
    CASE c = "connected"   -> [raised |-> NoExc, code |-> 0]
      [] c = "refused"     -> [raised |-> NoExc, code |-> 111]
      [] c = "timeout"     -> [raised |-> NoExc, code |-> 11]
      [] c = "unreachable" -> [raised |-> NoExc, code |-> 101]
      [] c = "gaierror"    -> [raised |-> "gaierror", code |-> -1]
      [] OTHER             -> [raised |-> "OverflowError", code |-> -1]

\* Variant of Classify with the test inverted.
ClassifyInverted(result) == IF result # 0 THEN "Open" ELSE "Closed"

\* The if/else on the value of connect_ex.
Classify(result) == IF result = 0 THEN "Open" ELSE "Closed"

\* The except clause of scan_port: a socket.error becomes (port, 'Error'),
\* any other exception leaves scan_port.
Handle(port, e) ==
    IF e \in socket_error
    THEN [exc |-> NoExc, result |-> <<port, "Error">>]
    ELSE [exc |-> e, result |-> <<>>]

\* scan_port(ip, port) when the environment does c to it.
scan_port(port, c) ==
    IF c = "emfile" THEN Handle(port, "OSError")
    ELSE LET r == connect_ex(c) IN
         IF r.raised # NoExc THEN Handle(port, r.raised)
         ELSE [exc |-> NoExc, result |-> <<port, Classify(r.code)>>]

\* The states the probe's socket can be in once scan_port has left.
\* sock.close() is reached only when connect_ex returned; when connect_ex
\* raised, the socket object is left to the garbage collector, which may or
\* may not have closed it.
SockAfter(c) ==
    IF c = "emfile" THEN {"none"}
    ELSE IF connect_ex(c).raised = NoExc THEN {"closed"}
    ELSE {"open", "closed"}

\* ---------------------------------------------------------------- sorting
Key(x) == x[1]

\* Insert x into the sorted sequence s, after the elements with an equal key.
RECURSIVE Insert(_, _)
Insert(x, s) ==
    IF s = <<>> THEN <<x>>
    ELSE IF Key(x) < Key(Head(s)) THEN <<x>> \o s
    ELSE <<Head(s)>> \o Insert(x, Tail(s))

RECURSIVE SortDistinct(_)
\* Variant of SortByPort that keeps one entry per port (sorting a set built
\* from the list).
SortDistinct(s) ==
    IF s = <<>> THEN <<>>
    ELSE LET rest == SortDistinct(SubSeq(s, 1, Len(s) - 1)) IN
         IF \E i \in 1..Len(rest) : Key(rest[i]) = Key(s[Len(s)])
         THEN rest ELSE Insert(s[Len(s)], rest)

\* Variant of SortByPort that leaves the list in arrival order.
SortOmitted(s) == s

\* results.sort(key=lambda x: x[0]): a stable sort by port.
RECURSIVE SortByPort(_)
SortByPort(s) ==
    IF s = <<>> THEN <<>>
    ELSE Insert(s[Len(s)], SortByPort(SubSeq(s, 1, Len(s) - 1)))

\* ------------------------------------------------------------- the executor
\* executor.submit(scan_port, ip, port): the arguments handed to scan_port.
SubmitArgs(a, p) == <<a, p>>

\* Variant of Timeout whose default is 0 (a non-blocking socket).
TimeoutZeroDefault(argv) == IF Len(argv) >= 3 THEN argv[3] ELSE 0

\* The timeout scan_port runs with: its third argument when one is passed,
\* the default of the signature otherwise.
Timeout(argv) == IF Len(argv) >= 3 THEN argv[3] ELSE DefaultTimeout

\* Variant of CanSpawn for a pool that never grows beyond one thread.
CanSpawnSingle(n, max_workers) == n < 1

\* Variant of CanSpawn whose comparison is off by one.
CanSpawnOffByOne(n, max_workers) == n <= max_workers

\* ThreadPoolExecutor.submit starts a new worker thread while fewer than
\* max_workers exist.
CanSpawn(n, max_workers) == n < max_workers

\* Variant of Exhausted that stops at the first yielded future.
ExhaustedAtFirst(collected, total) == collected # {} \/ total = {}

\* as_completed(futures) is exhausted once every future has been yielded.
Exhausted(collected, total) == collected = total

\* Variant of Dequeue that leaves the work item in the queue.
DequeuePeek(q) == q

\* The work queue after a worker has taken its oldest item.
Dequeue(q) == Tail(q)

\* Variant of RejectsWorkers that lets max_workers = 0 through.
RejectsWorkersNegative(n) == n < 0

\* ThreadPoolExecutor(max_workers=n) raises ValueError for n <= 0.
RejectsWorkers(n) == n <= 0

\* Variant of SubmitFinished that ends the comprehension after one submit.
SubmitFinishedEarly(i, n) == i > 1

\* The list comprehension over ports has run out of ports.
SubmitFinished(i, n) == i > n

\* Variant of Gather that rebinds the list instead of appending to it.
GatherOverwrite(rs, r) == <<r>>

\* results.append(r)
Gather(rs, r) == Append(rs, r)

Idle == {}
Running == {w \in 1..Len(busy) : busy[w] # Idle}
InFlight == UNION {busy[w] : w \in 1..Len(busy)}
AllProbesDone == queue = <<>> /\ Running = {}

\* ---------------------------------------------------------------- scan_ports
\* Entry of scan_ports up to the construction of the executor, which
\* rejects max_workers <= 0 with ValueError.
SpEnter ==
    /\ pc = "sp_enter"
    /\ sp' = "running"
    /\ ports' = Range(start_port, end_port + 1)
    /\ results' = <<>>
    /\ arrival' = arrival
    /\ fut' = [p \in ToSet(ports') |-> "NEW"]
    /\ cause' = [p \in ToSet(ports') |-> "none"]
    /\ outcome' = [p \in ToSet(ports') |-> [exc |-> NoExc, result |-> <<>>]]
    /\ sock' = [p \in ToSet(ports') |-> "none"]
    /\ started' = [p \in ToSet(ports') |-> 0]
    /\ call' = [p \in ToSet(ports') |-> <<>>]
    /\ tmo' = [p \in ToSet(ports') |-> <<>>]
    /\ IF RejectsWorkers(max_threads)
       THEN /\ pc' = "sp_raise"
            /\ exc' = "ValueError"
       ELSE /\ pc' = "submit"
            /\ exc' = exc
    /\ UNCHANGED <<args, next_i, queue, busy, ret, out, exit_code>>

\* One iteration of [executor.submit(scan_port, ip, port) for port in ports].
Submit ==
    /\ pc = "submit"
    /\ ~SubmitFinished(next_i, Len(ports))
    /\ next_i <= Len(ports)
    /\ LET p == ports[next_i] IN
        /\ fut' = [fut EXCEPT ![p] = "PENDING"]
        /\ queue' = Append(queue, p)
        /\ call' = [call EXCEPT ![p] = SubmitArgs(ip, p)]
    /\ busy' = IF CanSpawn(Len(busy), max_threads)
               THEN Append(busy, Idle) ELSE busy
    /\ next_i' = next_i + 1
    /\ UNCHANGED <<args, pc, ports, cause, outcome, sock, started, tmo, coll,
                   sp, ret, exc, out, exit_code>>

\* The list comprehension is finished; the as_completed loop begins.
SubmitDone ==
    /\ pc = "submit"
    /\ SubmitFinished(next_i, Len(ports))
    /\ pc' = "collect"
    /\ UNCHANGED <<args, ports, next_i, pool, coll, sp, ret, exc, out,
                   exit_code>>

\* An idle worker thread takes the oldest work item and enters scan_port:
\* the socket is created and the connect attempt is under way.
WorkerStart(w) ==
    /\ w \in 1..Len(busy)
    /\ busy[w] = Idle
    /\ queue # <<>>
    /\ LET p == Head(queue) IN
        /\ queue' = Dequeue(queue)
        /\ busy' = [busy EXCEPT ![w] = {p}]
        /\ fut' = [fut EXCEPT ![p] = "RUNNING"]
        /\ started' = [started EXCEPT ![p] = @ + 1]
        /\ tmo' = [tmo EXCEPT ![p] = <<Timeout(call[p])>>]
        /\ \E c \in Causes(ip, p) :
             /\ cause' = [cause EXCEPT ![p] = c]
             /\ sock' = [sock EXCEPT ![p] = IF c = "emfile" THEN "none" ELSE "open"]
    /\ UNCHANGED <<args, pc, ports, next_i, outcome, call, coll, sp, ret, exc,
                   out, exit_code>>

\* scan_port leaves (by return or by exception) and the worker stores the
\* result or the exception in the future.
WorkerFinish(w) ==
    /\ w \in 1..Len(busy)
    /\ busy[w] # Idle
    /\ LET p == CHOOSE q \in busy[w] : TRUE IN
        /\ outcome' = [outcome EXCEPT ![p] = scan_port(p, cause[p])]
        /\ \E s \in SockAfter(cause[p]) : sock' = [sock EXCEPT ![p] = s]
        /\ fut' = [fut EXCEPT ![p] = "FINISHED"]
    /\ busy' = [busy EXCEPT ![w] = Idle]
    /\ UNCHANGED <<args, pc, ports, next_i, queue, cause, started, call, tmo,
                   coll, sp, ret, exc, out, exit_code>>

Collected == ToSet(arrival)

\* One iteration of the as_completed loop: a finished future not yet
\* yielded is yielded and results.append(future.result()) runs;
\* future.result() re-raises the exception of a failed probe.
Collect(p) ==
    /\ pc = "collect"
    /\ p \in ToSet(ports) \ Collected
    /\ fut[p] = "FINISHED"
    /\ arrival' = Append(arrival, p)
    /\ IF outcome[p].exc # NoExc
       THEN /\ pc' = "sp_raise"
            /\ exc' = outcome[p].exc
            /\ results' = results
       ELSE /\ results' = Gather(results, outcome[p].result)
            /\ UNCHANGED <<pc, exc>>
    /\ UNCHANGED <<args, ports, next_i, pool, sp, ret, out, exit_code>>

\* The loop ends, the with block is left (shutdown(wait=True) joins the
\* workers), results is sorted by port and returned.
ScanPortsReturn ==
    /\ pc = "collect"
    /\ Exhausted(Collected, ToSet(ports))
    /\ AllProbesDone
    /\ ret' = SortByPort(results)
    /\ results' = ret'
    /\ sp' = "returned"
    /\ pc' = IF entry = "main" THEN "main_report" ELSE "done"
    /\ UNCHANGED <<args, ports, next_i, pool, arrival, exc, out, exit_code>>

\* An exception is on its way out of scan_ports: when it passes the with
\* block, shutdown(wait=True) first lets the workers drain the queue.
ScanPortsRaise ==
    /\ pc = "sp_raise"
    /\ AllProbesDone
    /\ sp' = "raised"
    /\ pc' = IF entry = "main" THEN "main_except" ELSE "done"
    /\ UNCHANGED <<args, ports, next_i, pool, coll, ret, exc, out, exit_code>>

\* ------------------------------------------------------------ display_results
RECURSIVE Rows(_)
\* The for loop of display_results: one row per 'Open' entry, in list order.
Rows(rs) ==
    IF rs = <<>> THEN <<>>
    ELSE (IF Head(rs)[2] = "Open" THEN <<Line("row", Head(rs)[1])>> ELSE <<>>)
         \o Rows(Tail(rs))

\* display_results(results): header, rule, rows.
display_results(rs) == <<Line("header", 0), Line("rule", 0)>> \o Rows(rs)

\* ----------------------------------------------------------------------- main
IsOpen(r) == r[2] = "Open"

\* Variant of OpenPorts that keeps every entry.
OpenPortsUnfiltered(rs) == rs

\* open_ports = [result for result in results if result[1] == 'Open']
OpenPorts(rs) == SelectSeq(rs, IsOpen)

\* Variant of Report whose second print is not under an else.
ReportNoElse(rs) ==
    (IF OpenPorts(rs) # <<>>
     THEN <<Line("open_found", 0)>> \o display_results(OpenPorts(rs))
     ELSE <<>>) \o <<Line("no_open", 0)>>

\* The if/else of main on open_ports.
Report(rs) ==
    IF OpenPorts(rs) # <<>>
    THEN <<Line("open_found", 0)>> \o display_results(OpenPorts(rs))
    ELSE <<Line("no_open", 0)>>

\* if not validate_ip(ip): print error, return.
MainValidateIp ==
    /\ pc = "main_ip"
    /\ IF ~validate_ip(ip)
       THEN /\ out' = Append(out, Line("error_ip", 0))
            /\ pc' = "done"
            /\ exit_code' = <<ExitNormal>>
       ELSE /\ out' = out
            /\ pc' = "main_range"
            /\ exit_code' = exit_code
    /\ UNCHANGED <<args, ports, next_i, pool, coll, sp, ret, exc>>

\* The port range test: print error, return; otherwise print the
\* "Scanning ..." line and call scan_ports.
MainValidateRange ==
    /\ pc = "main_range"
    /\ IF ~ValidRange(start_port, end_port)
       THEN /\ out' = Append(out, Line("error_range", 0))
            /\ pc' = "done"
            /\ exit_code' = <<ExitNormal>>
       ELSE /\ out' = Append(out, Line("scanning", 0))
            /\ pc' = "sp_enter"
            /\ exit_code' = exit_code
    /\ UNCHANGED <<args, ports, next_i, pool, coll, sp, ret, exc>>

\* scan_ports returned: filter the open ports and print the report.
MainReport ==
    /\ pc = "main_report"
    /\ out' = out \o Report(ret)
    /\ pc' = "done"
    /\ exit_code' = <<ExitNormal>>
    /\ UNCHANGED <<args, ports, next_i, pool, coll, sp, ret, exc>>

\* except Exception as e: print "Error during scanning".
MainExcept ==
    /\ pc = "main_except"
    /\ out' = Append(out, Line("error_scan", 0))
    /\ pc' = "done"
    /\ exit_code' = <<ExitNormal>>
    /\ UNCHANGED <<args, ports, next_i, pool, coll, sp, ret, exc>>

\* ------------------------------------------------------------- specification
Init ==
    /\ entry \in {"main", "scan_ports"}
    /\ ip \in IpInputs
    /\ start_port \in StartInputs
    /\ \E n \in 0..MaxPorts : end_port = start_port + n - 1
    /\ max_threads \in ThreadInputs
    /\ pc = IF entry = "main" THEN "main_ip" ELSE "sp_enter"
    /\ ports = <<>>
    /\ next_i = 1
    /\ queue = <<>>
    /\ busy = <<>>
    /\ fut = <<>>
    /\ cause = <<>>
    /\ outcome = <<>>
    /\ sock = <<>>
    /\ started = <<>>
    /\ call = <<>>
    /\ tmo = <<>>
    /\ arrival = <<>>
    /\ results = <<>>
    /\ sp = "idle"
    /\ ret = <<>>
    /\ exc = NoExc
    /\ out = <<>>
    /\ exit_code = <<>>

Next ==
    \/ MainValidateIp
    \/ MainValidateRange
    \/ SpEnter
    \/ Submit
    \/ SubmitDone
    \/ \E w \in 1..Len(busy) : WorkerStart(w)
    \/ \E w \in 1..Len(busy) : WorkerFinish(w)
    \/ \E p \in ToSet(ports) : Collect(p)
    \/ ScanPortsReturn
    \/ ScanPortsRaise
    \/ MainReport
    \/ MainExcept

Spec == Init /\ [][Next]_vars

\* Scheduling: the calling thread and every worker thread keep running, and
\* a probe on any worker but the first comes back (its connect is bounded by
\* the timeout). The probe on worker 1 is allowed to stall for ever.
\* Whether a scan ends does not depend on what its probes return, so the
\* invocations considered are those of main on the address whose probes
\* have the fewest outcomes.
CallerFair ==
    /\ WF_vars(MainValidateIp) /\ WF_vars(MainValidateRange)
    /\ WF_vars(SpEnter) /\ WF_vars(Submit) /\ WF_vars(SubmitDone)
    /\ WF_vars(\E p \in ToSet(ports) : Collect(p))
    /\ WF_vars(ScanPortsReturn) /\ WF_vars(ScanPortsRaise)
    /\ WF_vars(MainReport) /\ WF_vars(MainExcept)

WorkersFair ==
    /\ \A w \in 1..MaxThreads : WF_vars(WorkerStart(w))
    /\ \A w \in 2..MaxThreads : WF_vars(WorkerFinish(w))

StallInit == Init /\ entry = "main" /\ ip = Loopback6 /\ start_port = MinPort

StallSpec == StallInit /\ [][Next]_vars /\ CallerFair /\ WorkersFair

\* ------------------------------------------- the aggregation step on its own
\* Lines 52-53 of scan_ports as a function of the list they are given: the
\* list collected so far is any list of outcomes, of any length, with or
\* without repeated ports.
Statuses == {"Open", "Closed"}
AggPorts == MinPort..(MinPort + MaxPorts - 1)
AggOutcomes == {<<p, s>> : p \in AggPorts, s \in Statuses}
AggLists == UNION {[1..n -> AggOutcomes] : n \in 0..MaxPorts}

AggInit ==
    /\ entry = "scan_ports"
    /\ ip = Loopback4
    /\ start_port = MinPort
    /\ \E n \in 0..MaxPorts : end_port = start_port + n - 1
    /\ max_threads = 1
    /\ pc = "aggregate"
    /\ ports = Range(start_port, end_port + 1)
    /\ next_i = Len(ports) + 1
    /\ queue = <<>>
    /\ busy = <<>>
    /\ fut = <<>>
    /\ cause = <<>>
    /\ outcome = <<>>
    /\ sock = <<>>
    /\ started = <<>>
    /\ call = <<>>
    /\ tmo = <<>>
    /\ results \in AggLists
    /\ arrival = [i \in 1..Len(results) |-> results[i][1]]
    /\ sp = "running"
    /\ ret = <<>>
    /\ exc = NoExc
    /\ out = <<>>
    /\ exit_code = <<>>

\* results.sort(key=lambda x: x[0]); return results
AggregateStep ==
    /\ pc = "aggregate"
    /\ ret' = SortByPort(results)
    /\ results' = ret'
    /\ sp' = "returned"
    /\ pc' = "done"
    /\ UNCHANGED <<args, ports, next_i, pool, arrival, exc, out, exit_code>>

AggNext == AggregateStep

AggSpec == AggInit /\ [][AggNext]_vars

\* ------------------------------------------------------------------ properties
Returned == sp = "returned"
Finished(p) == p \in DOMAIN fut /\ fut[p] = "FINISHED"
RetPorts == {ret[i][1] : i \in 1..Len(ret)}
Ascending(s) == \A i, j \in 1..Len(s) : i < j => s[i] < s[j]

\* C1: for a valid range [s,e], whatever the interleaving of the probes, the
\* list scan_ports returns has e-s+1 entries and its ports are exactly
\* s..e (so each occurs once).
C1_ResultCoversRange ==
    (Returned /\ start_port >= MinPort /\ start_port <= end_port
              /\ end_port <= MaxPort)
    => /\ Len(ret) = end_port - start_port + 1
       /\ RetPorts = start_port..end_port

\* C1 witness: a three-port valid range was scanned by two workers and the
\* outcomes arrived out of port order.
C1_Witness ==
    /\ Returned /\ start_port = MinPort /\ end_port = MinPort + 2
    /\ max_threads = 2
    /\ ~Ascending(arrival)

\* C2: the returned list is strictly ascending by port and is the list of
\* the per-port outcomes in port order, so it does not depend on the order
\* in which the probes completed.
C2_SortedAndOrderIndependent ==
    Returned
    => /\ \A i, j \in 1..Len(ret) : i < j => ret[i][1] < ret[j][1]
       /\ Len(ret) = Len(ports)
       /\ \A i \in 1..Len(ret) : ret[i] = outcome[ports[i]].result

\* C2 witness: the outcomes were collected in descending port order and the
\* statuses differ, yet the list was returned.
C2_Witness ==
    /\ Returned /\ Len(arrival) = 3
    /\ arrival[1] > arrival[2] /\ arrival[2] > arrival[3]
    /\ ret[1][2] # ret[3][2]

StartedNotFinished == {p \in DOMAIN fut : fut[p] = "RUNNING"}

\* C3: with max_threads = N >= 1 at most N probes have started and not yet
\* finished, in every state.
C3_ConcurrencyCeiling ==
    max_threads >= 1 => Cardinality(StartedNotFinished) <= max_threads

\* C3 witness: the ceiling is reached while a further probe waits in the
\* queue.
C3_Witness ==
    /\ max_threads >= 1
    /\ Cardinality(StartedNotFinished) = max_threads
    /\ queue # <<>>

\* C4: when scan_ports has returned, every probe of the range has finished,
\* none is queued or in flight, and the result has one entry per port.
C4_ReturnAfterAllProbes ==
    Returned
    => /\ \A p \in ToSet(ports) : Finished(p)
       /\ queue = <<>> /\ StartedNotFinished = {} /\ Running = {}
       /\ Len(ret) = Len(ports)

\* C4 witness: a scan of several ports has returned.
C4_Witness == Returned /\ Len(ports) >= 2 /\ max_threads = 1

\* C5: a finished probe produced (port, 'Open') exactly when the connection
\* was established, (port, 'Closed') when it was refused, and the port of
\* the pair is the port probed.
C5_OpenIffConnected ==
    \A p \in DOMAIN fut : Finished(p)
    => /\ (outcome[p].result = <<p, "Open">>) <=> (cause[p] = "connected")
       /\ cause[p] = "refused" => outcome[p].result = <<p, "Closed">>
       /\ outcome[p].exc = NoExc => outcome[p].result[1] = p

\* C5 witness: one probe connected and another was refused.
C5_Witness ==
    \E p, q \in DOMAIN fut :
        /\ Finished(p) /\ cause[p] = "connected"
        /\ Finished(q) /\ cause[q] = "refused"

Status(p) == IF outcome[p].exc = NoExc THEN outcome[p].result[2] ELSE "raised"

\* C6 as stated: a probe that fails for a reason other than refusal (timeout,
\* unreachable network, no descriptor left) yields 'Error'.
C6_Original ==
    \A p \in DOMAIN fut :
        (Finished(p) /\ cause[p] \in {"timeout", "unreachable", "emfile"})
        => Status(p) = "Error"

\* C6 amended: a connect attempt that fails with an error indicator from
\* connect_ex (timeout, unreachable network) yields 'Closed'; the outcome is
\* 'Error' exactly when a socket call raised socket.error (no descriptor
\* left for socket(), host not resolvable for AF_INET).
C6_ErrorOnlyWhenRaised ==
    \A p \in DOMAIN fut : Finished(p)
    => /\ cause[p] \in {"timeout", "unreachable"} => Status(p) = "Closed"
       /\ (Status(p) = "Error") <=> (cause[p] \in {"emfile", "gaierror"})

\* C6 witness: one probe timed out and another found no descriptor.
C6_Witness ==
    \E p, q \in DOMAIN fut :
        /\ Finished(p) /\ cause[p] = "timeout"
        /\ Finished(q) /\ cause[q] = "emfile"

ScanOver == pc = "done" /\ sp # "idle" /\ max_threads >= 1
Failed(p) == cause[p] \in {"timeout", "unreachable", "emfile", "gaierror",
                           "overflow"}

\* C7 as stated: whatever a probe hits, scan_ports returns a full result in
\* which each failed port carries 'Error' and the others their own outcome.
C7_Original ==
    ScanOver
    => /\ Returned
       /\ Len(ret) = Len(ports)
       /\ \A i \in 1..Len(ret) :
            /\ ret[i][1] = ports[i]
            /\ Failed(ports[i]) => ret[i][2] = "Error"

\* C7 amended: a probe failure never keeps another probe from running; a
\* failure raised as socket.error is absorbed, so when every failure is of
\* that kind scan_ports returns the full result with 'Error' for exactly
\* those ports ('Closed' for a connect that failed with an error indicator)
\* and each other port's own outcome; an exception of another class
\* (OverflowError for a port above 65535) is re-raised by scan_ports after
\* all probes have finished, and nothing is returned.
C7_SocketErrorsAbsorbed ==
    ScanOver
    => LET escaped == {p \in ToSet(ports) : cause[p] = "overflow"} IN
       /\ \A p \in ToSet(ports) : Finished(p) /\ started[p] = 1
       /\ escaped = {} =>
            /\ Returned /\ exc = NoExc
            /\ Len(ret) = Len(ports)
            /\ \A i \in 1..Len(ret) :
                 /\ ret[i] = outcome[ports[i]].result
                 /\ ret[i][1] = ports[i]
                 /\ (ret[i][2] = "Error")
                      <=> (cause[ports[i]] \in {"emfile", "gaierror"})
       /\ escaped # {} => sp = "raised" /\ exc = "OverflowError" /\ ret = <<>>

\* C7 witness: one probe failed with socket.error, another connected, and
\* the scan returned.
C7_Witness ==
    /\ ScanOver /\ Returned
    /\ \E p, q \in ToSet(ports) : cause[p] = "emfile" /\ cause[q] = "connected"

InvalidArgs ==
    \/ ip \notin {Loopback4, Loopback6}
    \/ start_port < MinPort
    \/ end_port > MaxPort
    \/ start_port > end_port
Dispatched == {p \in DOMAIN fut : fut[p] # "NEW"}
SocketsOpened == {p \in DOMAIN sock : sock[p] # "none"}
Kinds(s) == {s[i].kind : i \in 1..Len(s)}

\* C8: when main is given an invalid address or an invalid port range,
\* scan_ports is never entered, no probe is dispatched and no socket is
\* opened, and the invocation ends with one error line; a probe is
\* dispatched by main only after both checks have passed.
C8_NoProbeOnInvalidInput ==
    entry = "main"
    => /\ InvalidArgs =>
            /\ sp = "idle" /\ Dispatched = {} /\ SocketsOpened = {}
            /\ queue = <<>> /\ busy = <<>>
            /\ pc = "done" =>
                 (out = <<Line("error_ip", 0)>> \/ out = <<Line("error_range", 0)>>)
       /\ Dispatched # {} => ~InvalidArgs /\ out # <<>> /\ out[1].kind = "scanning"

\* C8 witness: main ended on an inverted range with a valid address.
C8_Witness ==
    /\ entry = "main" /\ pc = "done"
    /\ ip = Loopback4 /\ start_port > end_port /\ start_port >= MinPort
    /\ out = <<Line("error_range", 0)>>

IsRow(l) == l.kind = "row"
RowsShown == SelectSeq(out, IsRow)
OpenInResult == {i \in 1..Len(ret) : ret[i][2] = "Open"}
TableKinds == {"open_found", "header", "rule"}
MainOver == entry = "main" /\ pc = "done"

\* C9: after a scan that returned, the rows main printed are exactly the
\* ports whose entry in the result is 'Open', each once and in ascending
\* order; without an 'Open' entry the no-open-ports line is printed and no
\* table, with one the table is printed and no no-open-ports line.
C9_OnlyOpenShown ==
    (MainOver /\ Returned)
    => /\ {RowsShown[i].port : i \in 1..Len(RowsShown)}
            = {ret[i][1] : i \in OpenInResult}
       /\ Len(RowsShown) = Cardinality(OpenInResult)
       /\ \A i, j \in 1..Len(RowsShown) :
            i < j => RowsShown[i].port < RowsShown[j].port
       /\ \A i \in 1..Len(RowsShown) :
            cause[RowsShown[i].port] = "connected"
       /\ OpenInResult = {} =>
            "no_open" \in Kinds(out) /\ Kinds(out) \cap TableKinds = {}
       /\ OpenInResult # {} =>
            "no_open" \notin Kinds(out) /\ TableKinds \subseteq Kinds(out)

\* C9 witness: the result held an 'Open', a 'Closed' and an 'Error' port and
\* main printed its report.
C9_Witness ==
    /\ MainOver /\ Returned
    /\ {ret[i][2] : i \in 1..Len(ret)} = {"Open", "Closed", "Error"}
    /\ Len(RowsShown) = 1

HasValidationError == Kinds(out) \cap {"error_ip", "error_range"} # {}
HasNoOpen == "no_open" \in Kinds(out)
HasTable == "header" \in Kinds(out)
HasScanError == "error_scan" \in Kinds(out)
Count(kind) == Cardinality({i \in 1..Len(out) : out[i].kind = kind})
OneOf(S) == Cardinality({b \in S : b[2]}) = 1

\* C10 as stated: every finished invocation of main printed exactly one of
\* a validation error, the no-open-ports line, or a table of open ports.
C10_Original ==
    MainOver
    => OneOf({<<1, HasValidationError>>, <<2, HasNoOpen>>, <<3, HasTable>>})

\* C10 amended: every finished invocation of main (arguments parsed)
\* printed exactly one of four results: a validation error, the
\* no-open-ports line, a table of open ports, or the "Error during
\* scanning" line (scan_ports raised, as with --threads 0); each at most
\* once.
C10_ExactlyOneOfFour ==
    MainOver
    => /\ OneOf({<<1, HasValidationError>>, <<2, HasNoOpen>>, <<3, HasTable>>,
                 <<4, HasScanError>>})
       /\ \A k \in {"error_ip", "error_range", "no_open", "header",
                     "error_scan"} : Count(k) <= 1
       /\ HasScanError <=> sp = "raised"

\* C10 witness: main ended with the "Error during scanning" line because
\* scan_ports raised.
C10_Witness ==
    /\ MainOver /\ HasScanError /\ max_threads = 0
    /\ out = <<Line("scanning", 0), Line("error_scan", 0)>>

\* C11 as stated: when main rejected an invalid address or port range, it
\* printed the error, attempted no scan, and the process ended with a status
\* other than the one a completed scan ends with.
C11_Original ==
    (MainOver /\ InvalidArgs)
    => /\ HasValidationError /\ sp = "idle"
       /\ exit_code # <<ExitNormal>>

\* A completed scan ends with ExitNormal (the status C11 compares with).
C11_SuccessStatus ==
    (MainOver /\ Returned) => exit_code = <<ExitNormal>>

\* C12 as stated: once scan_port has left, whatever its outcome, the socket
\* it created is closed.
C12_Original ==
    \A p \in DOMAIN fut : Finished(p) => sock[p] # "open"

\* C13: within one scan no port is probed more than once (a finished probe,
\* whatever its status, is not started again), and once the scan is over
\* every port of the range has been probed exactly once.
C13_ProbedExactlyOnce ==
    /\ \A p \in DOMAIN started :
         /\ started[p] <= 1
         /\ fut[p] \in {"RUNNING", "FINISHED"} <=> started[p] = 1
    /\ ScanOver =>
         \A p \in start_port..end_port :
             p \in DOMAIN started /\ started[p] = 1

\* C13 witness: the scan is over, one probe ended 'Closed', another 'Error',
\* and a worker had to take more than one work item.
C13_Witness ==
    /\ ScanOver /\ max_threads = 1
    /\ \E p, q \in ToSet(ports) :
         /\ Status(p) = "Closed" /\ Status(q) = "Error"
         /\ started[p] = 1 /\ started[q] = 1

Occurrences(s, p) == Cardinality({i \in 1..Len(s) : s[i] = p})
RetPortSeq == [i \in 1..Len(ret) |-> ret[i][1]]
RangeSize == IF end_port >= start_port THEN end_port - start_port + 1 ELSE 0

Phase ==
    CASE sp = "idle" -> 0
      [] sp = "running" /\ pc = "submit" -> 1
      [] sp = "running" /\ pc = "collect" -> 2
      [] sp = "returned" -> 4
      [] OTHER -> -1

PhaseStep ==
    /\ (Phase >= 0 /\ Phase' >= 0 /\ Phase' # Phase)
         => \/ Phase' = Phase + 1 /\ Phase < 2
            \/ Phase = 2 /\ Phase' = 4
    /\ Phase = -1 => Phase' = -1
    \* the first outcome is collected only after every port was submitted
    /\ arrival' # <<>> =>
         /\ next_i' > Len(ports')
         /\ \A p \in ToSet(ports') : fut'[p] # "NEW"
    \* the sort runs only on the outcomes of all dispatched probes
    /\ (Phase' = 4 /\ Phase # 4) =>
         /\ ToSet(arrival) = ToSet(ports) /\ Len(results) = Len(ports)
         /\ \A p \in ToSet(ports) : fut[p] = "FINISHED"
         /\ ret' = SortByPort(results)

\* C15: a scan moves through Idle, Dispatching, AwaitingCompletion,
\* Aggregating, Done one step at a time and never backwards; every port is
\* submitted before the first outcome is collected, and the sort runs only
\* once the outcome of every dispatched probe has been received.
C15_PhaseOrder == [][PhaseStep]_vars

\* C15 witness: a three-port scan called directly went through all phases.
C15_Witness ==
    /\ entry = "scan_ports" /\ Returned
    /\ Len(ports) = 3 /\ next_i = 4 /\ Len(arrival) = 3

Submitted == {p \in DOMAIN call : call[p] # <<>>}
Started == {p \in DOMAIN tmo : tmo[p] # <<>>}

\* C16 as stated: the timeout is handed down by the scan: every probe the
\* scan dispatches is called with a timeout argument.
C16_Original ==
    \A p \in Submitted : Len(call[p]) >= 3

\* C16 amended: scan_ports has no timeout parameter and submits every probe
\* with the address and the port only, so every probe runs with the default
\* timeout of scan_port, 1 second.
C16_DefaultTimeoutOnly ==
    /\ \A p \in Submitted : call[p] = <<ip, p>>
    /\ \A p \in Started : tmo[p] = <<DefaultTimeout>>
    /\ \A p \in DOMAIN fut : fut[p] \in {"RUNNING", "FINISHED"} => p \in Started

\* C16 witness: a probe ran with the default timeout and timed out.
C16_Witness ==
    \E p \in Started :
        Finished(p) /\ cause[p] = "timeout" /\ tmo[p] = <<DefaultTimeout>>

NoRepeat(s) == \A i, j \in 1..Len(s) : i # j => s[i] # s[j]

ResultsStep ==
    \* only the calling thread, inside lines 48-53, writes results; a step
    \* of a worker never does
    /\ results' # results =>
         /\ sp = "running" /\ pc = "collect"
         /\ busy' = busy /\ fut' = fut /\ outcome' = outcome
    \* each write in the loop appends the outcome of one finished probe that
    \* was not added before, and removes nothing
    /\ (results' # results /\ sp' = "running") =>
         \E p \in ToSet(ports) \ ToSet(arrival) :
             /\ fut[p] = "FINISHED"
             /\ results' = Append(results, outcome[p].result)
    /\ sp' = "running" => NoRepeat(results') /\ Len(results') <= Len(arrival')
    \* the sort consumes each collected outcome once
    /\ (sp' = "returned" /\ sp = "running") =>
         /\ Len(ret') = Len(results) /\ ToSet(ret') = ToSet(results)
         /\ ToSet(results) = {outcome[p].result : p \in ToSet(ports)}
         /\ NoRepeat(ret')

\* C17: under every interleaving the result list loses no update: the
\* outcome of each completed probe is appended once, by the calling thread
\* only and never in a step of a worker thread, and the sort consumes each
\* appended outcome once.
C17_NoLostUpdate == [][ResultsStep]_vars

\* C17 witness: one outcome has been appended while two workers are still
\* probing.
C17_Witness ==
    /\ pc = "collect" /\ Len(results) = 1
    /\ Cardinality(Running) = 2

OnWorker1 == IF Len(busy) >= 1 THEN busy[1] ELSE {}
Worker1Free == OnWorker1 = {}
ScanEnded == sp \in {"returned", "raised"}
OthersDone == \A p \in ToSet(ports) : Finished(p) \/ p \in OnWorker1

\* C18 (under StallSpec, where the probe on worker 1 may stall for ever):
\* if that probe too always comes back, a running scan ends, and it ends by
\* returning when the range is valid; and with max_threads >= 2 every probe
\* other than the one held by worker 1 is dispatched and finishes even if
\* that one never comes back.
C18_RunsToCompletion ==
    /\ ([]<>Worker1Free) =>
         /\ (sp = "running") ~> ScanEnded
         /\ (sp = "running" /\ max_threads >= 1 /\ ~InvalidArgs) ~> Returned
    /\ (sp = "running" /\ max_threads >= 2) ~> OthersDone

\* C18 witness: worker 1 still holds its probe while the two other ports of
\* the range have been probed to the end by worker 2.
C18_Witness ==
    /\ max_threads = 2 /\ Len(ports) = 3
    /\ OnWorker1 # {}
    /\ Cardinality({p \in ToSet(ports) : Finished(p)}) = 2

EmptyRangeCall == entry = "scan_ports" /\ start_port > end_port /\ sp # "idle"

\* C19 as stated: scan_ports called with a range of zero ports returns an
\* empty list, and no worker is started and no probe is run.
C19_Original ==
    EmptyRangeCall
    => /\ busy = <<>> /\ Dispatched = {} /\ Started = {}
       /\ pc = "done" => Returned /\ ret = <<>>

\* C19 amended: scan_ports called with a range of zero ports starts no
\* worker and runs no probe; with max_threads >= 1 it returns an empty
\* list, with max_threads < 1 it raises the ValueError of the executor.
C19_EmptyRange ==
    EmptyRangeCall
    => /\ busy = <<>> /\ Dispatched = {} /\ Started = {}
       /\ ports = <<>> /\ queue = <<>> /\ arrival = <<>>
       /\ pc = "done" =>
            IF max_threads >= 1
            THEN Returned /\ ret = <<>> /\ exc = NoExc
            ELSE sp = "raised" /\ exc = "ValueError" /\ ret = <<>>

\* C19 witness: a direct call with start_port > end_port and two threads
\* allowed has returned the empty list.
C19_Witness ==
    /\ EmptyRangeCall /\ pc = "done" /\ max_threads = 2
    /\ Returned /\ ret = <<>>

ThreadsTooFew == entry = "main" /\ ~InvalidArgs /\ max_threads < 1

\* C20: main given a valid address and range but --threads < 1 passes the
\* input validation and prints the "Scanning" line; scan_ports then raises
\* before submitting anything, no probe is dispatched, and main prints the
\* "Error during scanning" line and neither a table nor the no-open-ports
\* line.
C20_ThreadsBelowOne ==
    ThreadsTooFew
    => /\ Dispatched = {} /\ Submitted = {} /\ Started = {}
       /\ busy = <<>> /\ queue = <<>> /\ next_i = 1
       /\ pc \notin {"submit", "collect", "main_report"}
       /\ ~HasValidationError /\ ~HasNoOpen /\ ~HasTable
       /\ pc \notin {"main_ip", "main_range"} =>
            out # <<>> /\ out[1] = Line("scanning", 0)
       /\ sp # "idle" => exc = "ValueError"
       /\ pc = "done" =>
            /\ sp = "raised"
            /\ out = <<Line("scanning", 0), Line("error_scan", 0)>>

\* C20 witness: main was run on 127.0.0.1 with a valid three-port range and
\* --threads 0 and has ended.
C20_Witness ==
    /\ ThreadsTooFew /\ pc = "done"
    /\ ip = Loopback4 /\ end_port = start_port + 2
    /\ sp = "raised" /\ HasScanError
====
